---- MODULE Spec2Model ----
(***************************************************************************)
(* A model of WorkflowGraph (src/app/workflow_graph/workflow.js, the class *)
(* of lines 375-938): the graph built by setData, topoSort, _computeDepths,*)
(* relayout with the dragged (pinned) set, the drag and click handlers of a *)
(* rendered node, and run with its log, one step per resumption.           *)
(*                                                                         *)
(* SpecGraph loads one generated input and queries the graph, SpecLoads    *)
(* loads an input and defective versions of it one after the other,        *)
(* SpecReset loads one well-formed input and lays it out from scratch,     *)
(* SpecLayout interleaves loads, relayouts, renders and drags, SpecRun     *)
(* interleaves loads, relayouts, renders, pointerdowns, clicks and runs,   *)
(* and SpecRunFair is SpecRun with timers that fire.                       *)
(*                                                                         *)
(* JavaScript values are represented as follows.                           *)
(*   - a node id or a node_id is a TLA+ string; the token NotAString stands*)
(*     for any value whose typeof is not "string" (a missing field);       *)
(*   - a Map is a pair: the sequence of its keys in insertion order and a  *)
(*     function on those keys (iteration order is what topoSort reads);    *)
(*   - a coordinate is kept in half pixels (the value 2*px), which makes   *)
(*     the division by two of relayout's centring exact.                   *)
(***************************************************************************)
EXTENDS Integers, Sequences, FiniteSets, TLC

\* ---------------------------------------------------------------- bounds
MaxNodes == 3
MaxRefs == 3
MaxLoads == 2
MaxDrags == 1
MaxLog == 1

\* ------------------------------------------------------ program constants
NODE_W == 220
NODE_H == 80
GAP_X == 60
GAP_Y == 70
topPad == 60
leftPad == 40

\* ------------------------------------------------------------- JS values
NotAString == "<not-a-string>"
IdNames == <<"a", "b", "c", "d", "e", "f">>

IsString(v) == v # NotAString

\* String.prototype.trim on the strings the model uses: a string of white
\* space only trims to the empty string, any other string keeps a character.
Trim(s) == IF s \in {"", " "} THEN "" ELSE s

Max(a, b) == IF a >= b THEN a ELSE b

SetMax(S) == CHOOSE m \in S : \A x \in S : x <= m

Range(s) == {s[i] : i \in 1..Len(s)}

\* index of the first occurrence of v in s (0 when absent)
RECURSIVE IndexFrom(_, _, _)
IndexFrom(s, v, i) ==
  IF i > Len(s) THEN 0
  ELSE IF s[i] = v THEN i
  ELSE IndexFrom(s, v, i + 1)

IndexOf(s, v) == IndexFrom(s, v, 1)

VARIABLES
  input,      \* the workflow the page is about to pass to setData (SpecGraph)
  data,       \* this.data.nodes
  byId,       \* this.byId
  edges,      \* this.edges
  positions,  \* this.positions
  dragged,    \* this.dragged
  elems,      \* the rendered node elements and their drag closures
  activeId,   \* this.activeId
  running,    \* this.running
  runOrder,   \* the local `order` of the run in progress
  runPos,     \* how many nodes of runOrder the run has marked
  log,        \* the messages in this.logEl (None without a log element)
  width,      \* this.stage.clientWidth, in pixels
  loaded,     \* how the last setData call ended ("new" before the first)
  res,        \* the value returned by the last topoSort call
  depth,      \* the value returned by the last _computeDepths call
  last,       \* the last call made on the object and how it ended
  calls       \* how many setData calls and how many drags started so far

graphVars == <<data, byId, edges>>
layoutVars == <<positions, dragged, elems>>
runVars == <<activeId, running, runOrder, runPos>>
vars == <<input, data, byId, edges, positions, dragged, elems,
          activeId, running, runOrder, runPos, log, width, loaded, res,
          depth, last, calls>>

\* An absent value (null, undefined, no call yet).
None == [none |-> TRUE]

\* What `last` records of a call: for relayout its two inputs and how it ended
\* ("ok", "cycle", "throw"); for topoSort and _computeDepths their names; for a
\* pointermove that wrote a position its event name; for any other call only
\* that it was another call (op = "other").
Call(op, reset, w, out) == [op |-> op, reset |-> reset, w |-> w, out |-> out]

\* The log element: None when the object was given no logEl, else the record of
\* its messages, one per call of log(msg); a message is kept as its fixed text
\* and the ids it prints.
NewLog == [lines |-> <<>>]

Line(msg, ids) == [msg |-> msg, ids |-> ids]

\* log(msg): nothing without a log element, else the message is appended.
Log(l, msg, ids) ==
  IF l = None THEN l ELSE [lines |-> Append(l.lines, Line(msg, ids))]

\* clearLog()
ClearLog(l) == IF l = None THEN l ELSE NewLog

\* The texts of the messages of relayout (line 690) and of run (lines 917,
\* 923-925, 930, 935).
CycleLayoutMsg ==
  "ERROR: cycle detected; layout based on dependencies is not possible."
CycleRunMsg == "ERROR: cycle detected. Cannot run a cyclic workflow."
RunOrderMsg == "Run order:"
OrderMsg == "  "
EmptyMsg == ""
RunningMsg == "Running: "
DoneMsg == "\nDone."

\* --------------------------------------------------------------- the graph
\* ScanNodes without the duplicate check.
RECURSIVE ScanNodesNoDup(_, _, _)
ScanNodesNoDup(nodes, i, ids) ==
  IF i > Len(nodes) THEN [byId |-> ids, error |-> "none"]
  ELSE LET n == nodes[i] IN
    IF ~IsString(n.id) \/ Trim(n.id) = "" THEN [byId |-> ids, error |-> "id"]
    ELSE ScanNodesNoDup(nodes, i + 1, [k \in DOMAIN ids \cup {n.id} |->
                                         IF k = n.id THEN n ELSE ids[k]])

\* First loop of _validateAndBuildGraph: fills byId node by node and stops at
\* the first node without a usable id or with an id already seen.
RECURSIVE ScanNodes(_, _, _)
ScanNodes(nodes, i, ids) ==
  IF i > Len(nodes) THEN [byId |-> ids, error |-> "none"]
  ELSE LET n == nodes[i] IN
    IF ~IsString(n.id) \/ Trim(n.id) = "" THEN [byId |-> ids, error |-> "id"]
    ELSE IF n.id \in DOMAIN ids THEN [byId |-> ids, error |-> "duplicate"]
    ELSE ScanNodes(nodes, i + 1, [k \in DOMAIN ids \cup {n.id} |->
                                    IF k = n.id THEN n ELSE ids[k]])

\* ScanDeps that pushes the edge before it looks the reference up.
RECURSIVE ScanDepsPushFirst(_, _, _, _, _)
ScanDepsPushFirst(to, deps, j, ids, es) ==
  IF j > Len(deps) THEN [edges |-> es, error |-> "none"]
  ELSE LET v == deps[j].node_id
           depId == IF IsString(v) THEN v ELSE ""
           pushed == Append(es, [from |-> depId, to |-> to])
       IN IF depId = "" \/ depId \notin DOMAIN ids
          THEN [edges |-> pushed, error |-> "unresolved"]
          ELSE ScanDepsPushFirst(to, deps, j + 1, ids, pushed)

\* Inner loop of the second loop: the dependencies of one node, in order. Each
\* resolved reference is pushed on this.edges at once; an unresolved one throws.
RECURSIVE ScanDeps(_, _, _, _, _)
ScanDeps(to, deps, j, ids, es) ==
  IF j > Len(deps) THEN [edges |-> es, error |-> "none"]
  ELSE LET v == deps[j].node_id
           depId == IF IsString(v) THEN v ELSE ""   \* null is falsy like ""
       IN IF depId = "" \/ depId \notin DOMAIN ids
          THEN [edges |-> es, error |-> "unresolved"]
          ELSE ScanDeps(to, deps, j + 1, ids,
                        Append(es, [from |-> depId, to |-> to]))

\* Second loop of _validateAndBuildGraph, over the nodes in declaration order.
RECURSIVE BuildEdges(_, _, _, _)
BuildEdges(nodes, i, ids, es) ==
  IF i > Len(nodes) THEN [edges |-> es, error |-> "none"]
  ELSE LET r == ScanDeps(nodes[i].id, nodes[i].depends_on, 1, ids, es) IN
    IF r.error # "none" THEN r
    ELSE BuildEdges(nodes, i + 1, ids, r.edges)

EmptyMap == [k \in {} |-> None]

Ids(nodes) == {nodes[i].id : i \in 1..Len(nodes)}

\* _validateAndBuildGraph on this.data.nodes = nodes: byId is cleared and edges
\* reset first, so what the two loops built when one of them throws is what the
\* object keeps.
ValidateAndBuildGraph(nodes) ==
  LET s == ScanNodes(nodes, 1, EmptyMap) IN
  IF s.error # "none"
  THEN [byId |-> s.byId, edges |-> <<>>, error |-> s.error]
  ELSE LET b == BuildEdges(nodes, 1, s.byId, <<>>) IN
       [byId |-> s.byId, edges |-> b.edges, error |-> b.error]

\* ---------------------------------------------------------------- topoSort
\* The ids of the nodes, without repetition, in the order of first insertion:
\* the key order of the Maps indeg and out.
RECURSIVE KeyOrder(_, _, _)
KeyOrder(nodes, i, keys) ==
  IF i > Len(nodes) THEN keys
  ELSE KeyOrder(nodes, i + 1,
                IF nodes[i].id \in Range(keys) THEN keys
                ELSE Append(keys, nodes[i].id))

\* The loop over this.edges that counts in-degrees and fills the successor
\* lists.
RECURSIVE CountEdges(_, _, _, _)
CountEdges(es, i, indeg, out) ==
  IF i > Len(es) THEN [indeg |-> indeg, out |-> out]
  ELSE LET e == es[i] IN
    CountEdges(es, i + 1,
               [indeg EXCEPT ![e.to] = @ + 1],
               [out EXCEPT ![e.from] = Append(@, e.to)])

\* Release that enqueues every successor, whatever its remaining in-degree.
RECURSIVE ReleaseEager(_, _, _, _)
ReleaseEager(succ, j, indeg, q) ==
  IF j > Len(succ) THEN [indeg |-> indeg, q |-> q]
  ELSE ReleaseEager(succ, j + 1, [indeg EXCEPT ![succ[j]] = @ - 1],
                    Append(q, succ[j]))

\* The for loop over out.get(id): decrement, and enqueue what reaches zero.
RECURSIVE Release(_, _, _, _)
Release(succ, j, indeg, q) ==
  IF j > Len(succ) THEN [indeg |-> indeg, q |-> q]
  ELSE LET nxt == succ[j]
           d == indeg[nxt] - 1
       IN Release(succ, j + 1, [indeg EXCEPT ![nxt] = d],
                  IF d = 0 THEN Append(q, nxt) ELSE q)

\* Drain that takes the id entered last (a stack) instead of the first.
RECURSIVE DrainLifo(_, _, _, _)
DrainLifo(q, order, indeg, out) ==
  IF q = <<>> THEN order
  ELSE LET id == q[Len(q)]
           r == Release(out[id], 1, indeg, SubSeq(q, 1, Len(q) - 1))
       IN DrainLifo(r.q, Append(order, id), r.indeg, out)

\* The while loop: q.shift(), order.push(id), release the successors.
RECURSIVE Drain(_, _, _, _)
Drain(q, order, indeg, out) ==
  IF q = <<>> THEN order
  ELSE LET id == Head(q)
           r == Release(out[id], 1, indeg, Tail(q))
       IN Drain(r.q, Append(order, id), r.indeg, out)

SeedQueue(keys, indeg) ==
  SelectSeq(keys, LAMBDA id : indeg[id] = 0)

\* topoSort without the comparison of order.length with nodes.length.
TopoSortNoCount(nodes, es) ==
  LET keys == KeyOrder(nodes, 1, <<>>)
      c == CountEdges(es, 1, [k \in Range(keys) |-> 0],
                      [k \in Range(keys) |-> <<>>])
  IN [ok |-> TRUE,
      order |-> Drain(SeedQueue(keys, c.indeg), <<>>, c.indeg, c.out)]

TopoSortOf(nodes, es) ==
  LET keys == KeyOrder(nodes, 1, <<>>)
      c == CountEdges(es, 1, [k \in Range(keys) |-> 0],
                      [k \in Range(keys) |-> <<>>])
      order == Drain(SeedQueue(keys, c.indeg), <<>>, c.indeg, c.out)
  IN IF Len(order) # Len(nodes) THEN [ok |-> FALSE, order |-> <<>>]
     ELSE [ok |-> TRUE, order |-> order]

\* ---------------------------------------------------------- _computeDepths
\* DepthOfDeps that keeps the depth of the last dependency, not the maximum.
RECURSIVE DepthOfLastDep(_, _, _, _)
DepthOfLastDep(deps, j, dm, d) ==
  IF j > Len(deps) THEN d
  ELSE LET v == deps[j].node_id
           known == IF v \in DOMAIN dm THEN dm[v] ELSE 0
       IN DepthOfLastDep(deps, j + 1, dm, known + 1)

\* The loop over the dependencies of one node: d = max(d, (depth.get(dep) || 0)
\* + 1).
RECURSIVE DepthOfDeps(_, _, _, _)
DepthOfDeps(deps, j, dm, d) ==
  IF j > Len(deps) THEN d
  ELSE LET v == deps[j].node_id
           known == IF v \in DOMAIN dm THEN dm[v] ELSE 0
       IN DepthOfDeps(deps, j + 1, dm, Max(d, known + 1))

\* The second loop of _computeDepths. byId.get(id) of an id that byId does not
\* hold is undefined, and reading its depends_on throws a TypeError.
RECURSIVE DepthLoop(_, _, _, _)
DepthLoop(order, i, ids, dm) ==
  IF i > Len(order) THEN [threw |-> FALSE, depth |-> dm]
  ELSE LET id == order[i] IN
    IF id \notin DOMAIN ids THEN [threw |-> TRUE, depth |-> dm]
    ELSE DepthLoop(order, i + 1, ids,
                   [dm EXCEPT ![id] = DepthOfDeps(ids[id].depends_on, 1, dm, 0)])

ComputeDepthsOf(order, ids) ==
  DepthLoop(order, 1, ids, [k \in Range(order) |-> 0])

\* ------------------------------------------------------------- the inputs
\* All sequences over S of length n, and of length at most n.
RECURSIVE SeqsOfLen(_, _)
SeqsOfLen(S, n) ==
  IF n = 0 THEN {<<>>}
  ELSE {Append(s, x) : s \in SeqsOfLen(S, n - 1), x \in S}

SeqsUpTo(S, n) == UNION {SeqsOfLen(S, k) : k \in 0..n}

Node(id, deps) ==
  [id |-> id, depends_on |-> [j \in 1..Len(deps) |-> [node_id |-> deps[j]]]]

\* The well-formed inputs of n nodes with at most k dependency references in
\* all: node i is called IdNames[i] (the code compares ids for equality only,
\* so the names stand for any n distinct ids), and a reference may name any
\* node, itself and later ones included.
RECURSIVE GenNodes(_, _, _, _)
GenNodes(i, n, k, pool) ==
  IF i > n THEN {<<>>}
  ELSE UNION {{<<Node(IdNames[i], d)>> \o rest :
                 rest \in GenNodes(i + 1, n, k - Len(d), pool)} :
              d \in SeqsUpTo(pool, k)}

WellFormed(n, k) == GenNodes(1, n, k, {IdNames[i] : i \in 1..n})

BadIds == {"", " ", NotAString}

\* One defect put into a well-formed input: node i gets the id v (no usable id,
\* or the id of another node), or reference j of node i gets the node_id v (an
\* id of no node of the input, or no string).
IdDefects(w) ==
  UNION {{[kind |-> "id", i |-> i, j |-> 0, v |-> v] :
            v \in BadIds \cup {w[k].id : k \in 1..Len(w) \ {i}}} :
         i \in 1..Len(w)}

DepDefects(w) ==
  UNION {{[kind |-> "dep", i |-> i, j |-> j, v |-> v] :
            j \in 1..Len(w[i].depends_on),
            v \in {IdNames[Len(w) + 1], NotAString}} :
         i \in 1..Len(w)}

NoDefect == [kind |-> "none", i |-> 0, j |-> 0, v |-> ""]

Defects(w) == {NoDefect} \cup IdDefects(w) \cup DepDefects(w)

WithDefect(w, d) ==
  IF d.kind = "id" THEN [w EXCEPT ![d.i].id = d.v]
  ELSE IF d.kind = "dep" THEN [w EXCEPT ![d.i].depends_on[d.j].node_id = d.v]
  ELSE w

WellFormedInputs == UNION {WellFormed(n, MaxRefs) : n \in 0..MaxNodes}

\* ------------------------------------------------------------ the actions
\* The constructor (lines 462-468).
Constructed ==
  /\ data = <<>>
  /\ byId = EmptyMap
  /\ edges = <<>>
  /\ positions = EmptyMap
  /\ dragged = {}
  /\ elems = EmptyMap
  /\ activeId = None
  /\ running = FALSE
  /\ runOrder = <<>>
  /\ runPos = 0
  /\ loaded = "new"
  /\ res = None
  /\ depth = None
  /\ last = Call("new", FALSE, 0, "ok")
  /\ calls = [setData |-> 0, drags |-> 0]

\* setData that also empties the positions table and the dragged set.
SetDataFresh(w) ==
  LET g == ValidateAndBuildGraph(w) IN
  /\ data' = w
  /\ byId' = g.byId
  /\ edges' = g.edges
  /\ positions' = EmptyMap
  /\ dragged' = {}
  /\ loaded' = IF g.error = "none" THEN "ok" ELSE g.error
  /\ last' = Call("other", FALSE, 0, "ok")
  /\ calls' = [calls EXCEPT !.setData = @ + 1]
  /\ UNCHANGED <<input, width, log, elems, runVars, res, depth>>

\* setData(workflow): this.data is replaced first, then the graph is validated
\* and rebuilt in place; a throw leaves what was built so far.
SetData(w) ==
  LET g == ValidateAndBuildGraph(w) IN
  /\ data' = w
  /\ byId' = g.byId
  /\ edges' = g.edges
  /\ loaded' = IF g.error = "none" THEN "ok" ELSE g.error
  /\ last' = Call("other", FALSE, 0, "ok")
  /\ calls' = [calls EXCEPT !.setData = @ + 1]
  /\ UNCHANGED <<input, width, log, layoutVars, runVars, res, depth>>

\* A call of topoSort() by the page; the caller keeps the returned value.
TopoSort ==
  /\ loaded # "new"
  /\ res' = TopoSortOf(data, edges)
  /\ depth' = None
  /\ last' = Call("topoSort", FALSE, 0, "ok")
  /\ UNCHANGED <<input, width, log, graphVars, layoutVars, runVars, loaded, calls>>

\* _computeDepths(res.order) on the order topoSort has just returned, as
\* relayout calls it (lines 688-695): only after ok.
ComputeDepths ==
  /\ last.op = "topoSort"
  /\ res.ok
  /\ depth' = ComputeDepthsOf(res.order, byId)
  /\ last' = Call("_computeDepths", FALSE, 0,
                  IF depth'.threw THEN "throw" ELSE "ok")
  /\ UNCHANGED <<input, width, log, graphVars, layoutVars, runVars, loaded, res, calls>>

\* The page loads one workflow into a new object and then queries the graph.
LoadInput ==
  /\ loaded = "new"
  /\ SetData(input)

InitGraph ==
  /\ \E w \in WellFormedInputs : \E d \in Defects(w) : input = WithDefect(w, d)
  /\ log = None
  /\ width = 0            \* nothing is laid out in these runs
  /\ Constructed

NextGraph ==
  \/ LoadInput
  \/ TopoSort
  \/ ComputeDepths

SpecGraph == InitGraph /\ [][NextGraph]_vars

\* ---------------------------------------------------------------- relayout
\* Map.set on the positions table.
PutPos(pos, id, p) ==
  [k \in DOMAIN pos \cup {id} |-> IF k = id THEN p ELSE pos[k]]

\* LayerPos with the row taken from the index in the layer.
LayerPosByIndex(startX2, i, d) ==
  [x |-> startX2 + 2 * i * (NODE_W + GAP_X),
   y |-> 2 * (topPad + i * (NODE_H + GAP_Y))]

\* LayerPos that puts every layer in the first row.
LayerPosFlat(startX2, i, d) ==
  [x |-> startX2 + 2 * i * (NODE_W + GAP_X),
   y |-> 2 * topPad]

\* positions.set(id, {x, y}) of the layered pass, in half pixels.
LayerPos(startX2, i, d) ==
  [x |-> startX2 + 2 * i * (NODE_W + GAP_X),
   y |-> 2 * (topPad + d * (NODE_H + GAP_Y))]

\* PlaceLayer that never looks at the dragged set.
RECURSIVE PlaceLayerAll(_, _, _, _, _, _, _)
PlaceLayerAll(ids, i, d, startX2, reset, drg, pos) ==
  IF i >= Len(ids) THEN pos
  ELSE PlaceLayerAll(ids, i + 1, d, startX2, reset, drg,
                     PutPos(pos, ids[i + 1], LayerPos(startX2, i, d)))

\* The inner loop of relayout over the ids of one layer (i counts from 0): a
\* dragged id is skipped unless the call resets.
RECURSIVE PlaceLayer(_, _, _, _, _, _, _)
PlaceLayer(ids, i, d, startX2, reset, drg, pos) ==
  IF i >= Len(ids) THEN pos
  ELSE LET id == ids[i + 1] IN
    PlaceLayer(ids, i + 1, d, startX2, reset, drg,
               IF ~reset /\ id \in drg THEN pos
               ELSE PutPos(pos, id, LayerPos(startX2, i, d)))

\* layers.get(d): the ids of depth d in the order of `order`.
LayerIds(order, dm, d) == SelectSeq(order, LAMBDA id : dm[id] = d)

\* startX of a layer of count nodes in a stage w pixels wide, in half pixels:
\* 2 * max(leftPad, (w - totalW) / 2).
StartX2(count, w) ==
  LET totalW == count * NODE_W + (count - 1) * GAP_X
  IN Max(2 * leftPad, w - totalW)

\* The outer loop of relayout, d = 0 .. maxDepth.
RECURSIVE PlaceLayers(_, _, _, _, _, _, _, _)
PlaceLayers(order, dm, d, maxDepth, w, reset, drg, pos) ==
  IF d > maxDepth THEN pos
  ELSE LET ids == LayerIds(order, dm, d) IN
    PlaceLayers(order, dm, d + 1, maxDepth, w, reset, drg,
                IF Len(ids) = 0 THEN pos
                ELSE PlaceLayer(ids, 0, d, StartX2(Len(ids), w), reset, drg, pos))

\* The loop of _ensurePositionsForMissing over the missing ids: left to right
\* from x = 40 at y = 40, back to x = 40 when the node would pass w - 40.
RECURSIVE PackMissing(_, _, _, _, _)
PackMissing(missing, i, x, w, pos) ==
  IF i > Len(missing) THEN pos
  ELSE LET x1 == IF x + NODE_W > w - 40 THEN 40 ELSE x IN
    PackMissing(missing, i + 1, x1 + NODE_W + 20, w,
                PutPos(pos, missing[i], [x |-> 2 * x1, y |-> 2 * 40]))

EnsurePositionsForMissing(nodes, w, pos) ==
  LET ids == [i \in 1..Len(nodes) |-> nodes[i].id]
      missing == SelectSeq(ids, LAMBDA id : id \notin DOMAIN pos)
  IN PackMissing(missing, 1, 40, w, pos)

MaxDepthOf(order, dm) ==
  IF order = <<>> THEN 0 ELSE SetMax({dm[id] : id \in Range(order)})

\* relayout that empties the dragged set when it is done, whatever reset is.
RelayoutClearsLate(reset, w, nodes, ids, es, drg, pos) ==
  LET drg1 == IF reset THEN {} ELSE drg
      r == TopoSortOf(nodes, es)
  IN IF ~r.ok THEN [dragged |-> drg1, positions |-> pos, out |-> "cycle"]
     ELSE LET dp == ComputeDepthsOf(r.order, ids) IN
       IF dp.threw THEN [dragged |-> drg1, positions |-> pos, out |-> "throw"]
       ELSE LET pos1 == IF reset THEN EmptyMap ELSE pos
                placed == PlaceLayers(r.order, dp.depth, 0,
                                      MaxDepthOf(r.order, dp.depth),
                                      w, reset, drg1, pos1)
            IN [dragged |-> {},
                positions |-> EnsurePositionsForMissing(nodes, w, placed),
                out |-> "ok"]

\* relayout that clears the positions table together with the dragged set,
\* before it asks for the order.
RelayoutClearsEarly(reset, w, nodes, ids, es, drg, pos) ==
  LET drg1 == IF reset THEN {} ELSE drg
      pos1 == IF reset THEN EmptyMap ELSE pos
      r == TopoSortOf(nodes, es)
  IN IF ~r.ok THEN [dragged |-> drg1, positions |-> pos1, out |-> "cycle"]
     ELSE LET dp == ComputeDepthsOf(r.order, ids) IN
       IF dp.threw THEN [dragged |-> drg1, positions |-> pos1, out |-> "throw"]
       ELSE LET placed == PlaceLayers(r.order, dp.depth, 0,
                                      MaxDepthOf(r.order, dp.depth),
                                      w, reset, drg1, pos1)
            IN [dragged |-> drg1,
                positions |-> EnsurePositionsForMissing(nodes, w, placed),
                out |-> "ok"]

\* relayout({resetDragged: reset}) in a stage w pixels wide: what it leaves in
\* dragged and positions, and how it ends ("ok", "cycle" after the logged
\* error, "throw" when _computeDepths throws).
RelayoutOf(reset, w, nodes, ids, es, drg, pos) ==
  LET drg1 == IF reset THEN {} ELSE drg
      r == TopoSortOf(nodes, es)
  IN IF ~r.ok THEN [dragged |-> drg1, positions |-> pos, out |-> "cycle"]
     ELSE LET dp == ComputeDepthsOf(r.order, ids) IN
       IF dp.threw THEN [dragged |-> drg1, positions |-> pos, out |-> "throw"]
       ELSE LET pos1 == IF reset THEN EmptyMap ELSE pos
                placed == PlaceLayers(r.order, dp.depth, 0,
                                      MaxDepthOf(r.order, dp.depth),
                                      w, reset, drg1, pos1)
            IN [dragged |-> drg1,
                positions |-> EnsurePositionsForMissing(nodes, w, placed),
                out |-> "ok"]

\* ------------------------------------------------------ the layout actions
\* relayout({resetDragged: reset}) with this.stage.clientWidth = w.
Relayout(reset, w) ==
  LET r == RelayoutOf(reset, w, data, byId, edges, dragged, positions) IN
  /\ dragged' = r.dragged
  /\ positions' = r.positions
  /\ log' = IF r.out = "cycle" THEN Log(log, CycleLayoutMsg, <<>>) ELSE log
  /\ last' = Call("relayout", reset, w, r.out)
  /\ UNCHANGED <<input, width, graphVars, elems, runVars, loaded, res, depth, calls>>

\* The closure variables of _attachDrag for a new element: dragging = false,
\* originX = originY = 0 (startX and startY are kept out of the state: the
\* handlers read them only in clientX - startX, which PointerMove draws).
NewDrag == [dragging |-> FALSE, originX |-> 0, originY |-> 0]

\* render(): _renderNodes empties the host and makes one element, with new drag
\* handlers, for every node that has a position.
Render ==
  /\ elems' = [id \in {id \in Ids(data) : id \in DOMAIN positions} |-> NewDrag]
  /\ last' = Call("other", FALSE, 0, "ok")
  /\ UNCHANGED <<input, width, log, graphVars, positions, dragged, runVars, loaded, res,
                 depth, calls>>

\* pointerdown that does not look for a position of the node.
PointerDownNoCheck(id, onIcon) ==
  /\ id \in DOMAIN elems
  /\ \A e \in DOMAIN elems : ~elems[e].dragging
  /\ IF onIcon
     THEN UNCHANGED <<elems, dragged, calls>>
     ELSE /\ calls.drags < MaxDrags
          /\ elems' = [elems EXCEPT ![id] =
                         [dragging |-> TRUE,
                          originX |-> IF id \in DOMAIN positions
                                      THEN positions[id].x ELSE 0,
                          originY |-> IF id \in DOMAIN positions
                                      THEN positions[id].y ELSE 0]]
          /\ dragged' = dragged \cup {id}
          /\ calls' = [calls EXCEPT !.drags = @ + 1]
  /\ last' = Call("other", FALSE, 0, "ok")
  /\ UNCHANGED <<input, width, log, graphVars, positions, runVars, loaded, res,
                 depth>>

\* pointerdown on the element of id (onIcon: the target is inside a clickable
\* icon, and the handler returns at once). The page has one pointer: it goes
\* down on an element only when it is not already down on one.
PointerDown(id, onIcon) ==
  /\ id \in DOMAIN elems
  /\ \A e \in DOMAIN elems : ~elems[e].dragging
  /\ IF onIcon \/ id \notin DOMAIN positions
     THEN UNCHANGED <<elems, dragged, calls>>
     ELSE /\ calls.drags < MaxDrags
          /\ elems' = [elems EXCEPT ![id] =
                         [dragging |-> TRUE,
                          originX |-> positions[id].x,
                          originY |-> positions[id].y]]
          /\ dragged' = dragged \cup {id}
          /\ calls' = [calls EXCEPT !.drags = @ + 1]
  /\ last' = Call("other", FALSE, 0, "ok")
  /\ UNCHANGED <<input, width, log, graphVars, positions, runVars, loaded, res, depth>>

\* pointermove on the element of id, the pointer dx, dy pixels from where the
\* drag started.
PointerMove(id, dx, dy) ==
  /\ id \in DOMAIN elems
  /\ positions' = IF ~elems[id].dragging THEN positions
                  ELSE PutPos(positions, id,
                              [x |-> elems[id].originX + 2 * dx,
                               y |-> elems[id].originY + 2 * dy])
  /\ last' = Call(IF elems[id].dragging THEN "pointermove" ELSE "other",
                  FALSE, 0, "ok")
  /\ UNCHANGED <<input, width, log, graphVars, dragged, elems, runVars, loaded, res, depth,
                 calls>>

\* pointerup or pointercancel on the element of id. (The closure keeps originX
\* and originY, which nothing reads before the next pointerdown sets them; the
\* model forgets them here.)
PointerUp(id) ==
  /\ id \in DOMAIN elems
  /\ elems' = [elems EXCEPT ![id] = NewDrag]
  /\ last' = Call("other", FALSE, 0, "ok")
  /\ UNCHANGED <<input, width, log, graphVars, positions, dragged, runVars, loaded, res,
                 depth, calls>>

\* The workflows the page loads in the layout runs: a fan (one node above two),
\* a cycle on two of its ids, an input rejected for an id, and an input with
\* other ids rejected for a reference after one edge was built.
LayoutInputs ==
  {<<Node("a", <<>>), Node("b", <<"a">>), Node("c", <<"a">>)>>,
   <<Node("a", <<"b">>), Node("b", <<"a">>)>>,
   <<Node("a", <<>>), Node(" ", <<>>)>>,
   <<Node("c", <<>>), Node("d", <<"c", "z">>)>>}

\* The widths of the stage (the stage keeps its width while the page is used)
\* and the pointer offsets of a drag, in pixels.
Widths == {400, 901}
Deltas == {<<0, 0>>, <<30, -20>>}

Load(w) ==
  /\ calls.setData < MaxLoads
  /\ SetData(w)

InitLayout ==
  /\ input = <<>>
  /\ log = None
  /\ width \in Widths
  /\ Constructed

NextLayout ==
  \/ \E w \in LayoutInputs : Load(w)
  \/ \E reset \in BOOLEAN : Relayout(reset, width)
  \/ Render
  \/ \E id \in DOMAIN elems, onIcon \in BOOLEAN : PointerDown(id, onIcon)
  \/ \E id \in DOMAIN elems, d \in Deltas : PointerMove(id, d[1], d[2])
  \/ \E id \in DOMAIN elems : PointerUp(id)

SpecLayout == InitLayout /\ [][NextLayout]_vars

\* The page loads one well-formed workflow (with or without a cycle) into a
\* new object and lays it out from scratch.
InitReset ==
  /\ input \in WellFormedInputs
  /\ log = None
  /\ width \in Widths
  /\ Constructed

NextReset ==
  \/ LoadInput
  \/ Relayout(TRUE, width)

SpecReset == InitReset /\ [][NextReset]_vars

\* The page loads a well-formed workflow and versions of it in which one
\* reference names no node (the rejected inputs that leave edges behind), in
\* any order, into one object.
UnknownRefs(w) == {d \in DepDefects(w) : IsString(d.v)}

InitLoads ==
  /\ input \in WellFormedInputs
  /\ log = None
  /\ width = 0            \* nothing is laid out in these runs
  /\ Constructed

NextLoads ==
  \E d \in {NoDefect} \cup UnknownRefs(input) : Load(WithDefect(input, d))

SpecLoads == InitLoads /\ [][NextLoads]_vars

\* ----------------------------------------------------------------- the run
\* The value of this.activeId after setActive(id) with an id.
Active(id) == [id |-> id]

\* The three messages run logs before its loop.
RunHeader(l, order) ==
  Log(Log(Log(l, RunOrderMsg, <<>>), OrderMsg, order), EmptyMsg, <<>>)

\* run() that leaves this.running set when it refuses a graph with a cycle.
RunStuckOnCycle ==
  LET r == TopoSortOf(data, edges)
      cleared == ClearLog(log)
  IN IF ~r.ok
     THEN /\ log' = Log(cleared, CycleRunMsg, <<>>)
          /\ running' = TRUE
          /\ last' = Call("run", FALSE, 0, "cycle")
          /\ UNCHANGED <<activeId, runOrder, runPos>>
     ELSE IF r.order = <<>>
     THEN /\ activeId' = None
          /\ log' = Log(RunHeader(cleared, r.order), DoneMsg, <<>>)
          /\ running' = FALSE
          /\ last' = Call("run", FALSE, 0, "done")
          /\ UNCHANGED <<runOrder, runPos>>
     ELSE /\ activeId' = Active(r.order[1])
          /\ log' = Log(RunHeader(cleared, r.order), RunningMsg, <<r.order[1]>>)
          /\ running' = TRUE
          /\ runOrder' = r.order
          /\ runPos' = 1
          /\ last' = Call("run", FALSE, 0, "started")

\* run() past its guard: clearLog, topoSort, the refusal on a cycle, the header
\* messages and the first turn of the loop.
RunUnguarded ==
  LET r == TopoSortOf(data, edges)
      cleared == ClearLog(log)
  IN IF ~r.ok
     THEN /\ log' = Log(cleared, CycleRunMsg, <<>>)
          /\ running' = FALSE
          /\ last' = Call("run", FALSE, 0, "cycle")
          /\ UNCHANGED <<activeId, runOrder, runPos>>
     ELSE IF r.order = <<>>
     THEN /\ activeId' = None
          /\ log' = Log(RunHeader(cleared, r.order), DoneMsg, <<>>)
          /\ running' = FALSE
          /\ last' = Call("run", FALSE, 0, "done")
          /\ UNCHANGED <<runOrder, runPos>>
     ELSE /\ activeId' = Active(r.order[1])
          /\ log' = Log(RunHeader(cleared, r.order), RunningMsg, <<r.order[1]>>)
          /\ running' = TRUE
          /\ runOrder' = r.order
          /\ runPos' = 1
          /\ last' = Call("run", FALSE, 0, "started")

\* run() that does not look at this.running.
RunIgnoresRunning == RunUnguarded

\* run(), from the call to its first await (or to its return when it reaches
\* none): the guard on this.running, clearLog, topoSort, the refusal on a cycle,
\* the header messages and the first turn of the loop up to `await sleep`. An
\* empty order runs through to the end of the function in the same call.
RunCall ==
  IF running
  THEN /\ last' = Call("run", FALSE, 0, "busy")
       /\ UNCHANGED <<activeId, running, runOrder, runPos, log>>
  ELSE RunUnguarded

Run ==
  /\ RunCall
  /\ UNCHANGED <<input, width, graphVars, layoutVars, loaded, res, depth, calls>>

\* RunStep whose turn marks the id of the turn before once more.
RunStepStale ==
  /\ running
  /\ IF runPos < Len(runOrder)
     THEN /\ activeId' = Active(runOrder[runPos])
          /\ log' = Log(log, RunningMsg, <<runOrder[runPos]>>)
          /\ runPos' = runPos + 1
          /\ last' = Call("step", FALSE, 0, "ok")
          /\ UNCHANGED <<running, runOrder>>
     ELSE /\ activeId' = None
          /\ log' = Log(log, DoneMsg, <<>>)
          /\ running' = FALSE
          /\ runOrder' = <<>>
          /\ runPos' = 0
          /\ last' = Call("step", FALSE, 0, "done")
  /\ UNCHANGED <<input, width, graphVars, layoutVars, loaded, res, depth, calls>>

\* RunStep that never leaves the loop: after the last id it marks nothing and
\* waits again.
RunStepStuck ==
  /\ running
  /\ IF runPos < Len(runOrder)
     THEN /\ activeId' = Active(runOrder[runPos + 1])
          /\ log' = Log(log, RunningMsg, <<runOrder[runPos + 1]>>)
          /\ runPos' = runPos + 1
          /\ last' = Call("step", FALSE, 0, "ok")
          /\ UNCHANGED <<running, runOrder>>
     ELSE /\ last' = Call("step", FALSE, 0, "ok")
          /\ UNCHANGED <<activeId, log, running, runOrder, runPos>>
  /\ UNCHANGED <<input, width, graphVars, layoutVars, loaded, res, depth, calls>>

\* RunStep that asks topoSort for the order again at every turn.
RunStepRecomputes ==
  LET cur == TopoSortOf(data, edges).order IN
  /\ running
  /\ IF runPos < Len(cur)
     THEN /\ activeId' = Active(cur[runPos + 1])
          /\ log' = Log(log, RunningMsg, <<cur[runPos + 1]>>)
          /\ runPos' = runPos + 1
          /\ last' = Call("step", FALSE, 0, "ok")
          /\ UNCHANGED <<running, runOrder>>
     ELSE /\ activeId' = None
          /\ log' = Log(log, DoneMsg, <<>>)
          /\ running' = FALSE
          /\ runOrder' = <<>>
          /\ runPos' = 0
          /\ last' = Call("step", FALSE, 0, "done")
  /\ UNCHANGED <<input, width, graphVars, layoutVars, loaded, res, depth, calls>>

\* The run resumes after `await sleep(stepMs)`: the next turn of the loop up to
\* its await, or, after the last id, setActive(null), the last message and
\* running = false (the local `order` is gone with the call).
RunStep ==
  /\ running
  /\ IF runPos < Len(runOrder)
     THEN /\ activeId' = Active(runOrder[runPos + 1])
          /\ log' = Log(log, RunningMsg, <<runOrder[runPos + 1]>>)
          /\ runPos' = runPos + 1
          /\ last' = Call("step", FALSE, 0, "ok")
          /\ UNCHANGED <<running, runOrder>>
     ELSE /\ activeId' = None
          /\ log' = Log(log, DoneMsg, <<>>)
          /\ running' = FALSE
          /\ runOrder' = <<>>
          /\ runPos' = 0
          /\ last' = Call("step", FALSE, 0, "done")
  /\ UNCHANGED <<input, width, graphVars, layoutVars, loaded, res, depth, calls>>

\* click on the element of id (not on its icon): setActive(id).
Click(id) ==
  /\ id \in DOMAIN elems
  /\ activeId' = Active(id)
  /\ last' = Call("other", FALSE, 0, "ok")
  /\ UNCHANGED <<input, width, log, graphVars, layoutVars, running, runOrder, runPos,
                 loaded, res, depth, calls>>

\* The workflows the page loads in the runs: three nodes declared in another
\* order than the one topoSort returns, a cycle, and an input with other ids
\* rejected for a reference, which leaves a graph of two nodes and one edge.
RunInputs ==
  {<<Node("b", <<"a">>), Node("a", <<>>), Node("c", <<"a", "b">>)>>,
   <<Node("a", <<"b">>), Node("b", <<"a">>)>>,
   <<Node("c", <<>>), Node("d", <<"c", "z">>)>>}

\* The width of the stage in the runs.
RunWidth == 400

\* relayout logs one more message at every call on a graph with a cycle: such
\* a call is made only while the log holds fewer than MaxLog messages.
LogRoom == TopoSortOf(data, edges).ok \/ Len(log.lines) < MaxLog

InitRun ==
  /\ input = <<>>
  /\ log = NewLog
  /\ width = RunWidth
  /\ Constructed

NextRun ==
  \/ \E w \in RunInputs : Load(w)
  \/ LogRoom /\ Relayout(FALSE, width)
  \/ Render
  \/ \E id \in DOMAIN elems : PointerDown(id, FALSE)
  \/ \E id \in DOMAIN elems : Click(id)
  \/ Run
  \/ RunStep

SpecRun == InitRun /\ [][NextRun]_vars

\* The timer of every `await sleep(stepMs)` fires: a run that waits is resumed.
SpecRunFair == SpecRun /\ WF_vars(RunStep)

\* ------------------------------------------------------ the graph's claims
EdgePairs(es) == {<<es[i].from, es[i].to>> : i \in 1..Len(es)}

Ends(R) == {p[1] : p \in R} \cup {p[2] : p \in R}

\* The pairs joined by a path of at least one edge and at most n edges.
RECURSIVE Paths(_, _)
Paths(R, n) ==
  IF n <= 1 THEN R
  ELSE LET P == Paths(R, n - 1) IN
       P \cup {x \in Ends(R) \X Ends(R) :
                 \E y \in Ends(R) : <<x[1], y>> \in P /\ <<y, x[2]>> \in R}

HasCycle(es) ==
  \E p \in Paths(EdgePairs(es), Cardinality(EdgePairs(es))) : p[1] = p[2]

Occurrences(s, v) == Cardinality({i \in 1..Len(s) : s[i] = v})

\* C1: on a successfully loaded graph without a cycle, topoSort returns ok and
\* an order that holds every node id exactly once and puts the source of every
\* edge before its target.
C1_TopoOrder ==
  (loaded = "ok" /\ res # None /\ ~HasCycle(edges)) =>
    /\ res.ok
    /\ \A id \in Ids(data) : Occurrences(res.order, id) = 1
    /\ Range(res.order) = Ids(data)
    /\ \A e \in Range(edges) :
         IndexOf(res.order, e.from) < IndexOf(res.order, e.to)

\* An acyclic loaded graph of three nodes with a repeated edge and an isolated
\* node, sorted.
C1_Witness ==
  /\ loaded = "ok" /\ res # None /\ ~HasCycle(edges)
  /\ Len(data) = 3
  /\ \E i, j \in 1..Len(edges) : i # j /\ edges[i] = edges[j]
  /\ \E id \in Ids(data) :
       \A e \in Range(edges) : e.from # id /\ e.to # id
  /\ Len(res.order) = 3

\* C2: on a successfully loaded graph with a cycle, topoSort returns ok = false
\* and an empty order.
C2_CycleReported ==
  (loaded = "ok" /\ res # None /\ HasCycle(edges)) =>
    res = [ok |-> FALSE, order |-> <<>>]

\* A cycle that is entered from a node without dependencies, reported.
C2_Witness ==
  /\ loaded = "ok" /\ res # None /\ HasCycle(edges)
  /\ \E e \in Range(edges) :
       /\ \A f \in Range(edges) : f.to # e.from
       /\ <<e.to, e.to>> \in Paths(EdgePairs(edges), Cardinality(EdgePairs(edges)))
  /\ ~res.ok

DepIds(n) == {n.depends_on[j].node_id : j \in 1..Len(n.depends_on)}

\* C3: on an acyclic loaded graph, _computeDepths of the order of topoSort gives
\* depth 0 to a node without dependencies and 1 + the maximum depth of its
\* dependencies to any other node, hence a larger depth to the target of every
\* edge than to its source.
C3_Depths ==
  (loaded = "ok" /\ depth # None) =>
    /\ ~depth.threw
    /\ DOMAIN depth.depth = Ids(data)
    /\ \A i \in 1..Len(data) :
         depth.depth[data[i].id] =
           IF DepIds(data[i]) = {} THEN 0
           ELSE 1 + SetMax({depth.depth[d] : d \in DepIds(data[i])})
    /\ \A e \in Range(edges) : depth.depth[e.to] > depth.depth[e.from]

\* A node of depth 2 whose first dependency is deeper than its last.
C3_Witness ==
  /\ loaded = "ok" /\ depth # None
  /\ \E i \in 1..Len(data) :
       LET deps == data[i].depends_on IN
       /\ Len(deps) = 2
       /\ depth.depth[deps[1].node_id] = 1
       /\ depth.depth[deps[2].node_id] = 0
       /\ depth.depth[data[i].id] = 2

\* ------------------------------------------------------- the load's claims
HasDuplicateId(nodes) ==
  \E i, j \in 1..Len(nodes) : i # j /\ nodes[i].id = nodes[j].id

HasUnresolvedRef(nodes) ==
  \E i \in 1..Len(nodes) : \E d \in DepIds(nodes[i]) : d \notin Ids(nodes)

\* The statement of C4 as the claim words it: a node "without a non-empty
\* string id" is a node whose id is no string or is the empty string.
C4_AsClaimed ==
  loaded # "new" =>
    (loaded # "ok" <=>
       \/ \E i \in 1..Len(data) : ~IsString(data[i].id) \/ data[i].id = ""
       \/ HasDuplicateId(data)
       \/ HasUnresolvedRef(data))

\* C4 (amended): setData fails exactly when the input has a node whose id is no
\* string or is empty once trimmed of white space, or two nodes with the same
\* id, or a reference whose node_id is the id of no node of the input.
C4_LoadValidation ==
  loaded # "new" =>
    (loaded # "ok" <=>
       \/ \E i \in 1..Len(data) :
            ~IsString(data[i].id) \/ Trim(data[i].id) = ""
       \/ HasDuplicateId(data)
       \/ HasUnresolvedRef(data))

\* An input whose first node depends on a node declared after it, loaded.
C4_Witness ==
  /\ loaded = "ok"
  /\ \E i, j \in 1..Len(data) : i < j /\ data[j].id \in DepIds(data[i])

\* C5: a setData call that fails leaves the node sequence, the id index and the
\* edge list as they were before the call.
C5_FailedLoadKeepsGraph ==
  [][(calls'.setData # calls.setData /\ loaded' # "ok") =>
       (data' = data /\ byId' = byId /\ edges' = edges)]_vars

\* C6: after a setData call rejected for an unresolved reference, the edge list
\* holds no edge of the rejected input (here the call is the first one on the
\* object, so every edge in the list comes from that input).
C6_NoPartialEdges ==
  loaded = "unresolved" => edges = <<>>

\* ----------------------------------------------------- the layout's claims
\* The graph in place is the one a successful setData built (or the empty one
\* of the constructor).
GraphLoaded == loaded \in {"new", "ok"}

\* The layer depth by its definition: 0 without dependencies, else one more
\* than the deepest dependency (on a loaded graph without a cycle).
RECURSIVE DepthByDef(_, _)
DepthByDef(ids, id) ==
  IF DepIds(ids[id]) = {} THEN 0
  ELSE 1 + SetMax({DepthByDef(ids, d) : d \in DepIds(ids[id])})

\* The layered position of id for the order `order` in a stage w wide, in half
\* pixels: x = max(leftPad, (w - totalWidth) / 2) + i * (NODE_W + GAP_X),
\* y = topPad + depth * (NODE_H + GAP_Y), i the number of nodes of the same
\* depth before id in the order.
LayeredPos(ids, order, w, id) ==
  LET d == DepthByDef(ids, id)
      layer == {k \in 1..Len(order) : DepthByDef(ids, order[k]) = d}
      i == Cardinality({k \in layer : k < IndexOf(order, id)})
      totalWidth == Cardinality(layer) * NODE_W + (Cardinality(layer) - 1) * GAP_X
      centred == w - totalWidth
  IN [x |-> (IF centred > 2 * leftPad THEN centred ELSE 2 * leftPad)
              + 2 * i * (NODE_W + GAP_X),
      y |-> 2 * topPad + 2 * d * (NODE_H + GAP_Y)]

\* C7: a relayout call without reset leaves every node of the dragged set that
\* has a position at that position, for every width.
C7_PinPreserved ==
  [][(last'.op = "relayout" /\ ~last'.reset) =>
       \A id \in dragged :
         id \in DOMAIN positions =>
           (id \in DOMAIN positions' /\ positions'[id] = positions[id])]_vars

\* After a relayout without reset that laid the graph out, a dragged node of the
\* graph sits where the drag left it, not where the layers would put it.
C7_Witness ==
  /\ last.op = "relayout" /\ ~last.reset /\ last.out = "ok"
  /\ GraphLoaded
  /\ \E id \in dragged \cap Ids(data) :
       positions[id] # LayeredPos(byId, TopoSortOf(data, edges).order, last.w, id)

\* C8: after relayout with reset on a loaded graph without a cycle, the dragged
\* set is empty and the positions table holds exactly the nodes of the graph,
\* each at its layered position for the width of the call.
C8_FullReset ==
  (last.op = "relayout" /\ last.reset /\ GraphLoaded /\ ~HasCycle(edges)) =>
    /\ dragged = {}
    /\ DOMAIN positions = Ids(data)
    /\ \A id \in Ids(data) :
         positions[id] =
           LayeredPos(byId, TopoSortOf(data, edges).order, last.w, id)

\* A reset of the fan after a drag and after another graph had left its
\* entries in the table.
C8_Witness ==
  /\ last.op = "relayout" /\ last.reset /\ GraphLoaded /\ ~HasCycle(edges)
  /\ Len(data) = 3
  /\ calls.setData = 2
  /\ calls.drags = 1
  /\ \E id \in Ids(data) : positions[id].x > 2 * leftPad

\* C9: a relayout without reset that directly follows a relayout without reset
\* of the same width leaves the positions table as the first call left it.
C9_Idempotent ==
  [][(/\ last.op = "relayout" /\ ~last.reset
      /\ last'.op = "relayout" /\ ~last'.reset
      /\ last'.w = last.w) => positions' = positions]_vars

\* After a relayout without reset that laid the graph out around a dragged
\* node, with entries of another graph still in the table.
C9_Witness ==
  /\ last.op = "relayout" /\ ~last.reset /\ last.out = "ok"
  /\ dragged # {}
  /\ ~(DOMAIN positions \subseteq Ids(data))

\* C10: after any relayout call that found no cycle, every node of the current
\* node sequence has a position.
C10_AllPositioned ==
  (last.op = "relayout" /\ last.out # "cycle") =>
    \A id \in Ids(data) : id \in DOMAIN positions

\* C10 on the states whose graph a successful setData built.
C10_OnLoadedGraph ==
  (last.op = "relayout" /\ last.out # "cycle" /\ GraphLoaded) =>
    \A id \in Ids(data) : id \in DOMAIN positions

\* C11: a relayout call on a graph with a cycle, with or without reset, ends by
\* reporting the cycle (it does not throw) and leaves the positions table as it
\* was before the call.
C11_CycleKeepsPositions ==
  [][(last'.op = "relayout" /\ HasCycle(edges)) =>
       (last'.out = "cycle" /\ positions' = positions)]_vars

\* A relayout with reset refused for a cycle, with the positions of an earlier
\* graph in the table.
C11_Witness ==
  /\ last.op = "relayout" /\ last.reset /\ last.out = "cycle"
  /\ loaded = "ok" /\ HasCycle(edges)
  /\ positions # EmptyMap

\* C14: a relayout without reset that follows the pointermove of a drag leaves
\* the node of that drag where the pointermove put it, whatever calls came
\* between the pointerdown and the pointermove.
C14_ManualPlacementKept ==
  [][(last.op = "pointermove" /\ last'.op = "relayout" /\ ~last'.reset) =>
       \A id \in DOMAIN elems :
         elems[id].dragging =>
           (id \in DOMAIN positions' /\ positions'[id] = positions[id])]_vars

\* C15: a relayout call on a graph with a cycle, with or without reset, leaves
\* the dragged set as it was before the call.
C15_CycleKeepsPinned ==
  [][(last'.op = "relayout" /\ HasCycle(edges)) => dragged' = dragged]_vars

\* C16: a node enters the dragged set only in a pointermove that writes its
\* position; a pointerdown alone (the start of a plain click) adds no node.
C16_PinnedOnlyByMove ==
  [][\A id \in dragged' \ dragged : last'.op = "pointermove"]_vars

\* ------------------------------------------------------ the order's claims
\* The ids of the nodes in declaration order.
Declared(nodes) == [i \in 1..Len(nodes) |-> nodes[i].id]

IsRoot(es, id) == \A e \in Range(es) : e.to # id

\* When a node that has predecessors becomes ready in the order `order`: the
\* place in the order of its predecessor that comes last, and the place in the
\* edge list of the last edge from that predecessor to the node.
ReadyAt(es, order, id) ==
  LET p == SetMax({IndexOf(order, e.from) : e \in {f \in Range(es) : f.to = id}})
      j == SetMax({i \in 1..Len(es) : es[i].from = order[p] /\ es[i].to = id})
  IN <<p, j>>

Before(a, b) == a[1] < b[1] \/ (a[1] = b[1] /\ a[2] < b[2])

\* C20: on an acyclic loaded graph the order of topoSort starts with the nodes
\* without incoming edge in declaration order, and the other nodes follow in
\* the order in which they became ready (by the place of their last predecessor
\* in the order, then by the place of the last edge from it in the edge list);
\* this fixes the order, and a second call on the graph returns the same value.
C20_FifoKahnOrder ==
  /\ [](( loaded = "ok" /\ res # None /\ res.ok) =>
         LET order == res.order
             roots == SelectSeq(Declared(data), LAMBDA id : IsRoot(edges, id))
         IN /\ Len(roots) <= Len(order)
            /\ SubSeq(order, 1, Len(roots)) = roots
            /\ \A m, n \in Range(order) \ Range(roots) :
                 IndexOf(order, m) < IndexOf(order, n) <=>
                   Before(ReadyAt(edges, order, m), ReadyAt(edges, order, n)))
  /\ [][(last'.op = "topoSort" /\ res # None) => res' = res]_vars

\* An order of three nodes in which a node declared later than another comes
\* before it because it became ready first, on a graph with a repeated edge.
C20_Witness ==
  /\ loaded = "ok" /\ res # None /\ res.ok
  /\ last.op = "topoSort" /\ Len(res.order) = 3
  /\ \E i, j \in 1..Len(edges) : i # j /\ edges[i] = edges[j]
  /\ \E m, n \in Range(res.order) :
       /\ ~IsRoot(edges, m) /\ ~IsRoot(edges, n)
       /\ IndexOf(Declared(data), n) < IndexOf(Declared(data), m)
       /\ IndexOf(res.order, m) < IndexOf(res.order, n)

\* C19: after relayout with reset on a loaded graph without a cycle, two nodes
\* have the same y exactly when they have the same depth, and the source of
\* every edge has a smaller y than its target.
C19_RowsByDepth ==
  (last.op = "relayout" /\ last.reset /\ GraphLoaded /\ ~HasCycle(edges)) =>
    /\ Ids(data) \subseteq DOMAIN positions
    /\ \A m, n \in Ids(data) :
         positions[m].y = positions[n].y <=>
           DepthByDef(byId, m) = DepthByDef(byId, n)
    /\ \A e \in Range(edges) : positions[e.from].y < positions[e.to].y

\* A reset layout of three nodes, one in each of three rows, with an edge from
\* the first row to the third.
C19_Witness ==
  /\ last.op = "relayout" /\ last.reset /\ loaded = "ok" /\ ~HasCycle(edges)
  /\ Len(data) = 3
  /\ \E e \in Range(edges) :
       positions[e.to].y - positions[e.from].y = 4 * (NODE_H + GAP_Y)

\* -------------------------------------------------------- the run's claims
\* C12: a run that starts takes the order topoSort returns at that moment, an
\* order that holds every node once, and marks its first id; every later step
\* of the run marks the next id of that order, one id per step, so that one
\* node is active after it; the step after the last id clears the active node
\* and ends the run; no other call changes the order or the progress.
C12_RunInOrder ==
  [][/\ (last'.op = "run" /\ last'.out = "started") =>
          /\ ~running /\ running'
          /\ runOrder' = TopoSortOf(data, edges).order
          /\ Len(runOrder') = Len(data)
          /\ \A id \in Ids(data) : Occurrences(runOrder', id) = 1
          /\ runPos' = 1
          /\ activeId' = Active(runOrder'[1])
     /\ (last'.op = "step" /\ last'.out = "ok") =>
          /\ running /\ running'
          /\ runOrder' = runOrder
          /\ runPos' = runPos + 1
          /\ runPos' <= Len(runOrder)
          /\ activeId' = Active(runOrder[runPos'])
     /\ (last'.op = "step" /\ last'.out = "done") =>
          /\ running /\ ~running'
          /\ runPos = Len(runOrder)
          /\ activeId' = None
     /\ (last'.op \notin {"run", "step"}) =>
          UNCHANGED <<running, runOrder, runPos>>]_vars

\* The third node of a run marked, on a loaded graph whose order is not the
\* order of declaration.
C12_Witness ==
  /\ last.op = "step" /\ running /\ runPos = 3
  /\ loaded = "ok" /\ Range(runOrder) = Ids(data)
  /\ runOrder # Declared(data)
  /\ activeId = Active(runOrder[3])

\* C13: a run called, while no run is in progress, on a graph with a cycle is
\* refused: the active node, the order and the progress stay as they were and
\* running is false after the call; and a run called while no run is in
\* progress on a loaded graph without a cycle is accepted.
C13_RunRefusedOnCycle ==
  [][/\ (last'.op = "run" /\ ~running /\ HasCycle(edges)) =>
          /\ last'.out = "cycle"
          /\ ~running'
          /\ UNCHANGED <<activeId, runOrder, runPos>>
     /\ (last'.op = "run" /\ ~running /\ loaded = "ok" /\ ~HasCycle(edges)) =>
          /\ last'.out = "started"
          /\ running']_vars

\* A run refused for a cycle while a node marked by a click is active.
C13_Witness ==
  /\ last.op = "run" /\ last.out = "cycle"
  /\ loaded = "ok" /\ HasCycle(edges)
  /\ activeId # None
  /\ ~running

\* C17: a run called while a run is in progress returns at once: the active
\* node, the log, the order and the progress of the run in progress stay as
\* they were; and at any time the object holds the steps of one run at most
\* (running is true exactly while those steps are pending).
C17_OneRunAtATime ==
  /\ [][(last'.op = "run" /\ running) =>
          /\ last'.out = "busy"
          /\ UNCHANGED <<activeId, running, runOrder, runPos, log>>]_vars
  /\ [](IF running THEN runPos \in 1..Len(runOrder)
        ELSE runOrder = <<>> /\ runPos = 0)

\* A run called between the second and the third step of a run in progress.
C17_Witness ==
  /\ last.op = "run" /\ last.out = "busy"
  /\ running /\ runPos = 2 /\ Len(runOrder) = 3
  /\ Len(log.lines) = 5

\* C18: a setData call, accepted or rejected, and every call and step of a run
\* leave the positions table and the dragged set as they were.
C18_LoadAndRunKeepLayout ==
  [][(calls'.setData # calls.setData \/ last'.op \in {"run", "step"}) =>
       (positions' = positions /\ dragged' = dragged)]_vars

\* A run in progress after a second, rejected setData that took a dragged node
\* out of the graph: the node is still in the dragged set and in the table.
C18_Witness ==
  /\ calls.setData = 2 /\ loaded # "ok"
  /\ running /\ last.op = "step"
  /\ \E id \in dragged : id \notin Ids(data) /\ id \in DOMAIN positions

\* ------------------------------------------------ the claims on invariants
\* The number of dependency references of the nodes before node i.
RECURSIVE RefsBefore(_, _)
RefsBefore(nodes, i) ==
  IF i <= 1 THEN 0
  ELSE RefsBefore(nodes, i - 1) + Len(nodes[i - 1].depends_on)

\* C21: in every state both ends of every edge are ids of nodes of the current
\* node sequence (and keys of the id index); after an accepted setData the
\* edge list holds one edge, from the node_id to the id of the node, for every
\* dependency reference of the input, and no other.
C21_EdgesWithinNodes ==
  /\ \A e \in Range(edges) :
       {e.from, e.to} \subseteq Ids(data) \cap DOMAIN byId
  /\ loaded = "ok" =>
       /\ Len(edges) = RefsBefore(data, Len(data) + 1)
       /\ \A i \in 1..Len(data) : \A j \in 1..Len(data[i].depends_on) :
            edges[RefsBefore(data, i) + j] =
              [from |-> data[i].depends_on[j].node_id, to |-> data[i].id]

\* A setData rejected for a reference after a setData that was accepted, with
\* the edges built before the throw in the list.
C21_Witness ==
  /\ calls.setData = 2 /\ loaded = "unresolved"
  /\ edges # <<>>
  /\ Len(data) = 3

\* The positions table after the layered pass of relayout({resetDragged: reset})
\* on the current state (the loop over the layers done, the pass for the
\* missing nodes not yet), for a call that finds an order and its depths.
AfterLayers(reset) ==
  LET order == TopoSortOf(data, edges).order
      dm == ComputeDepthsOf(order, byId).depth
  IN PlaceLayers(order, dm, 0, MaxDepthOf(order, dm), width, reset,
                 IF reset THEN {} ELSE dragged,
                 IF reset THEN EmptyMap ELSE positions)

\* C22: in every state every id of the dragged set has an entry in the
\* positions table, and in every relayout call that lays the graph out every
\* node has a position when the layered pass is over, so that the pass for the
\* missing nodes places none.
C22_PinnedHavePositions ==
  /\ [](dragged \subseteq DOMAIN positions)
  /\ [][(last'.op = "relayout" /\ last'.out = "ok") =>
          /\ Ids(data) \subseteq DOMAIN AfterLayers(last'.reset)
          /\ positions' = AfterLayers(last'.reset)]_vars

\* A relayout without reset has laid the graph out around a dragged node while
\* the page still shows the element of a node that has no position, on which
\* a pointerdown pins nothing.
C22_Witness ==
  /\ last.op = "relayout" /\ ~last.reset /\ last.out = "ok"
  /\ dragged \cap Ids(data) # {}
  /\ \E id \in DOMAIN elems : id \notin DOMAIN positions

\* C23: when the timers fire, every run in progress ends, with running false
\* and no node active, whatever calls come between its steps; the resumption
\* that ends it is the one that finds every id of the order marked, the n-th
\* for an order of n ids, and no earlier one.
C23_RunTerminates ==
  /\ running ~> (~running /\ activeId = None)
  /\ [][last'.op = "step" =>
          /\ runPos \in 1..Len(runOrder)
          /\ last'.out = "done" <=> runPos = Len(runOrder)]_vars

\* A run that started on a graph without a cycle has ended after a setData
\* put a graph with a cycle in its place.
C23_Witness ==
  /\ last.op = "step" /\ last.out = "done"
  /\ ~running /\ activeId = None
  /\ loaded = "ok" /\ HasCycle(edges)

\* The ids printed by the messages of the log with the text msg, in the order
\* of the messages.
RECURSIVE LoggedIds(_, _, _)
LoggedIds(lines, i, msg) ==
  IF i > Len(lines) THEN <<>>
  ELSE (IF lines[i].msg = msg THEN lines[i].ids ELSE <<>>)
         \o LoggedIds(lines, i + 1, msg)

\* C24: the ids a run has marked so far (its "Running: " messages) are the
\* first ids of the order it printed when it started, whatever setData and
\* relayout calls came between its steps; when its last step is over they are
\* that order; and no setData or relayout call changes the order, the progress
\* or the active node of a run in progress.
C24_RunKeepsItsOrder ==
  /\ [](LET ord == LoggedIds(log.lines, 1, OrderMsg)
             marked == LoggedIds(log.lines, 1, RunningMsg)
         IN /\ Len(marked) <= Len(ord)
            /\ marked = SubSeq(ord, 1, Len(marked))
            /\ running => (ord = runOrder /\ Len(marked) = runPos)
            /\ (last.op = "step" /\ last.out = "done") => marked = ord)
  /\ [][(calls'.setData # calls.setData \/ last'.op = "relayout") =>
          UNCHANGED <<activeId, running, runOrder, runPos>>]_vars

\* A run has marked its third node after a setData took nodes of its order
\* out of the graph.
C24_Witness ==
  /\ running /\ runPos = 3 /\ last.op = "step"
  /\ ~(Range(runOrder) \subseteq Ids(data))
  /\ LoggedIds(log.lines, 1, RunningMsg) = runOrder
====
